---- MODULE Spec2Model ----
(***************************************************************************)
(* SystemInformationDiagnosticsPlugin of bevy_diagnostic                   *)
(* (crates/bevy_diagnostic/src/system_information_diagnostics_plugin.rs).  *)
(*                                                                         *)
(* The plugin installs setup_system as a startup system and                *)
(* diagnostic_system as a per-update system.  Two cfg-selected `internal`  *)
(* modules exist: the real one (sysinfo based) and a no-op fallback.       *)
(*                                                                         *)
(* Floating point values are modelled exactly: a finite value is           *)
(* (n / d) * 2^e with n, d odd and coprime (0 is 0/1 * 2^0); the IEEE      *)
(* results of a division by zero, NaN and +inf, are values of their own.   *)
(* Rounding of f32/f64 arithmetic is not modelled.  Option<T> is a         *)
(* sequence of length at most one.                                         *)
(***************************************************************************)
EXTENDS Integers, Sequences, FiniteSets, TLC

VARIABLES
    target_os,          \* cfg(target_os = ...) of the build
    dynamic_plugin,     \* cfg(feature = "bevy_dynamic_plugin") of the build
    phase,              \* App life cycle: "new", "built", "running"
    startup_systems,    \* systems installed by add_startup_system
    systems,            \* systems installed by add_system
    diagnostics,        \* Diagnostics resource: DiagnosticId -> Diagnostic
    offered,            \* number of add_measurement calls made per DiagnosticId
    sysinfo,            \* Local<Option<System>> of diagnostic_system
    new_all_calls,      \* number of System::new_all() calls made so far
    calls,              \* calls made by the last execution of diagnostic_system
    ticks,              \* number of updates the App has run
    os,                 \* what the operating system reports through sysinfo
    os_changes,         \* number of changes of the operating system's load
    log,                \* records emitted through bevy_log
    log_calls           \* number of log_system_info calls made so far

vars == <<target_os, dynamic_plugin, phase, startup_systems, systems,
          diagnostics, offered, sysinfo, new_all_calls, calls, ticks, os,
          os_changes, log, log_calls>>

-----------------------------------------------------------------------------
(* Bounds of the model *)

MaxTicks == 3           \* updates run under Spec and SpecLog
MaxHistTicks == 22      \* updates run under SpecHist
MaxOsChanges == 1       \* changes of the load between updates
MaxLogCalls == 1        \* calls of log_system_info
MaxCores == 2           \* logical cores reported by sysinfo
MaxMem == 3             \* memory sizes, in units of MemUnit bytes

CpuReadings == {0, 100}     \* cpu_usage() "returns a value from 0.0 to 100.0"

-----------------------------------------------------------------------------
(* Option<T> *)

None == << >>
Some(x) == <<x>>
is_none(o) == Len(o) = 0
is_some(o) == Len(o) = 1
unwrap_or_else(o, dflt) == IF is_some(o) THEN o[1] ELSE dflt

-----------------------------------------------------------------------------
(* Floating point values *)

RECURSIVE Gcd(_, _)
Gcd(a, b) == IF b = 0 THEN a ELSE Gcd(b, a % b)

RECURSIVE Pow2(_)
Pow2(k) == IF k = 0 THEN 1 ELSE 2 * Pow2(k - 1)

RECURSIVE TwoAdic(_)
TwoAdic(n) == IF n % 2 = 1 THEN 0 ELSE 1 + TwoAdic(n \div 2)

NaN == [k |-> "nan", n |-> 0, d |-> 1, e |-> 0]
Inf == [k |-> "inf", n |-> 1, d |-> 1, e |-> 0]

Norm(n, d, e) ==
    IF n = 0 THEN [k |-> "num", n |-> 0, d |-> 1, e |-> 0]
    ELSE LET g == Gcd(n, d)
             n1 == n \div g
             d1 == d \div g
             a == TwoAdic(n1)
             b == TwoAdic(d1)
         IN [k |-> "num", n |-> n1 \div Pow2(a), d |-> d1 \div Pow2(b),
             e |-> e + a - b]

FromInt(i) == Norm(i, 1, 0)

IsNum(x) == x.k = "num"
IsZero(x) == x.k = "num" /\ x.n = 0

Min(a, b) == IF a <= b THEN a ELSE b

FAdd(x, y) ==
    IF x.k = "nan" \/ y.k = "nan" THEN NaN
    ELSE IF x.k = "inf" \/ y.k = "inf" THEN Inf
    ELSE LET m == Min(x.e, y.e)
         IN Norm(x.n * y.d * Pow2(x.e - m) + y.n * x.d * Pow2(y.e - m),
                 x.d * y.d, m)

FMul(x, y) ==
    IF x.k = "nan" \/ y.k = "nan" THEN NaN
    ELSE IF x.k = "inf" \/ y.k = "inf"
         THEN (IF IsZero(x) \/ IsZero(y) THEN NaN ELSE Inf)
    ELSE Norm(x.n * y.n, x.d * y.d, x.e + y.e)

FDiv(x, y) ==
    IF x.k = "nan" \/ y.k = "nan" THEN NaN
    ELSE IF x.k = "inf" THEN (IF y.k = "inf" THEN NaN ELSE Inf)
    ELSE IF y.k = "inf" THEN FromInt(0)
    ELSE IF IsZero(y) THEN (IF IsZero(x) THEN NaN ELSE Inf)
    ELSE Norm(x.n * y.d, x.d * y.n, x.e - y.e)

\* x <= y for finite values
FLe(x, y) ==
    LET m == Min(x.e, y.e)
    IN x.n * y.d * Pow2(x.e - m) <= y.n * x.d * Pow2(y.e - m)

-----------------------------------------------------------------------------
(* Constants of the plugin *)

MemUnit == Pow2(28)     \* the unit of the memory sizes: a quarter of a GiB

CPU_USAGE == "78494871623549551581510633532637320956"
MEM_USAGE == "42846254859293759601295317811892519825"

BYTES_TO_GIB ==
    FDiv(FDiv(FDiv(FromInt(1), FromInt(1024)), FromInt(1024)), FromInt(1024))

-----------------------------------------------------------------------------
(* The platform gate: the two cfg attributes of `pub mod internal` *)

TargetOses == {"linux", "windows", "android", "macos", "ios", "unknown"}

\* #[cfg(all(any(linux, windows, android, macos), not(feature = "bevy_dynamic_plugin")))]
RealSelected ==
    /\ \/ target_os = "linux"
       \/ target_os = "windows"
       \/ target_os = "android"
       \/ target_os = "macos"
    /\ ~ dynamic_plugin

\* fault variant: the fallback's cfg without the feature test
FallbackSelected_ignores_feature ==
    ~ ( \/ target_os = "linux"
        \/ target_os = "windows"
        \/ target_os = "android"
        \/ target_os = "macos" )

\* #[cfg(not(all(any(linux, windows, android, macos), not(feature = "bevy_dynamic_plugin"))))]
FallbackSelected ==
    ~ ( /\ \/ target_os = "linux"
           \/ target_os = "windows"
           \/ target_os = "android"
           \/ target_os = "macos"
        /\ ~ dynamic_plugin )

-----------------------------------------------------------------------------
(* The diagnostics registry (crate::Diagnostic, crate::Diagnostics) *)

Diagnostic_new(id, name, max_history_length) ==
    [id |-> id, name |-> name, suffix |-> "",
     max_history_length |-> max_history_length, history |-> << >>]

with_suffix(d, suffix) == [d EXCEPT !.suffix = suffix]

\* Diagnostics::add: insert the diagnostic under its id
Diagnostics_add(ds, d) ==
    [i \in DOMAIN ds \cup {d.id} |-> IF i = d.id THEN d ELSE ds[i]]

\* Diagnostic::add_measurement: drop the oldest measurement of a full history
Diagnostic_add_measurement(d, m) ==
    [d EXCEPT !.history =
        IF Len(@) = d.max_history_length
        THEN Append(Tail(@), m)
        ELSE Append(@, m)]

\* Diagnostics::add_measurement: only a registered diagnostic takes the value
Diagnostics_add_measurement(ds, id, m) ==
    IF id \in DOMAIN ds
    THEN [ds EXCEPT ![id] = Diagnostic_add_measurement(@, m)]
    ELSE ds

-----------------------------------------------------------------------------
(* internal::setup_system *)

\* fault variant: mem_usage is not registered
setup_system_only_cpu(ds) ==
    Diagnostics_add(ds,
        with_suffix(Diagnostic_new(CPU_USAGE, "cpu_usage", 20), "%"))

\* fault variant: a history one measurement longer
setup_system_history_21(ds) ==
    Diagnostics_add(
        Diagnostics_add(ds,
            with_suffix(Diagnostic_new(CPU_USAGE, "cpu_usage", 21), "%")),
        with_suffix(Diagnostic_new(MEM_USAGE, "mem_usage", 21), "%"))

setup_system(ds) ==
    Diagnostics_add(
        Diagnostics_add(ds,
            with_suffix(Diagnostic_new(CPU_USAGE, "cpu_usage", 20), "%")),
        with_suffix(Diagnostic_new(MEM_USAGE, "mem_usage", 20), "%"))

\* the fallback's setup_system only warns
setup_system_fallback(lg) ==
    Append(lg, [level |-> "warn",
                text |-> "This platform and/or configuration is not supported!",
                info |-> None])

-----------------------------------------------------------------------------
(* internal::diagnostic_system *)

\* System::new_all(): a handle with everything loaded
new_all(o) ==
    [cpus |-> o.cpus, total_memory |-> o.total_memory,
     used_memory |-> o.used_memory]

refresh_cpu(sys, o) == [sys EXCEPT !.cpus = o.cpus]

refresh_memory(sys, o) ==
    [sys EXCEPT !.total_memory = o.total_memory,
                !.used_memory = o.used_memory]

\* fault variant: the handle is made anew by every update
lazy_init_always(local, o) ==
    [handle |-> Some(new_all(o)), created |-> 1]

\* if sysinfo.is_none() { *sysinfo = Some(System::new_all()); }
\* (created: the number of System::new_all() calls this makes)
lazy_init(local, o) ==
    IF is_none(local)
    THEN [handle |-> Some(new_all(o)), created |-> 1]
    ELSE [handle |-> local, created |-> 0]

\* fault variant: the gauges are read without a refresh
refresh_skipped(sys, o) == sys

\* sys.refresh_cpu(); sys.refresh_memory();
refresh(sys, o) == refresh_memory(refresh_cpu(sys, o), o)

RECURSIVE usage_sum(_, _)
usage_sum(cpus, usage) ==
    IF cpus = << >> THEN usage
    ELSE usage_sum(Tail(cpus), FAdd(usage, FromInt(Head(cpus))))

current_cpu_usage(sys) ==
    FDiv(usage_sum(sys.cpus, FromInt(0)), FromInt(Len(sys.cpus)))

current_used_mem(sys) ==
    LET total_mem == FDiv(FromInt(sys.total_memory), BYTES_TO_GIB)
        used_mem == FDiv(FromInt(sys.used_memory), BYTES_TO_GIB)
    IN FMul(FDiv(used_mem, total_mem), FromInt(100))

\* fault variant: the memory measurement is not pushed
measurements_cpu_only(cpu, mem) ==
    << [id |-> CPU_USAGE, value |-> cpu, gauge |-> "cpu"] >>

\* fault variant: the two values are pushed under each other's id
measurements_swapped_ids(cpu, mem) ==
    << [id |-> MEM_USAGE, value |-> cpu, gauge |-> "cpu"],
       [id |-> CPU_USAGE, value |-> mem, gauge |-> "mem"] >>

\* the two add_measurement calls, in the order they are made
measurements(cpu, mem) ==
    << [id |-> CPU_USAGE, value |-> cpu, gauge |-> "cpu"],
       [id |-> MEM_USAGE, value |-> mem, gauge |-> "mem"] >>

RECURSIVE push_all(_, _, _)
push_all(ds, ms, time) ==
    IF ms = << >> THEN ds
    ELSE push_all(
            Diagnostics_add_measurement(ds, Head(ms).id,
                [time |-> time, value |-> Head(ms).value,
                 gauge |-> Head(ms).gauge]),
            Tail(ms), time)

RECURSIVE count_all(_, _)
count_all(cnt, ms) ==
    IF ms = << >> THEN cnt
    ELSE count_all([cnt EXCEPT ![Head(ms).id] = @ + 1], Tail(ms))

push_calls(ms) == [i \in 1..Len(ms) |-> <<"add_measurement", ms[i].id>>]

diagnostic_system_real ==
    LET init == lazy_init(sysinfo, os)
        local == init.handle
    IN /\ new_all_calls' = new_all_calls + init.created
       /\ IF is_none(local)
          THEN /\ sysinfo' = local
               /\ calls' = << <<"return">> >>
               /\ UNCHANGED <<diagnostics, offered>>
          ELSE LET sys == refresh(local[1], os)
                   cpu == current_cpu_usage(sys)
                   mem == current_used_mem(sys)
                   ms == measurements(cpu, mem)
               IN /\ sysinfo' = Some(sys)
                  /\ diagnostics' = push_all(diagnostics, ms, ticks + 1)
                  /\ offered' = count_all(offered, ms)
                  /\ calls' = << <<"refresh_cpu">>, <<"refresh_memory">>,
                                 <<"cpus">>, <<"total_memory">>,
                                 <<"used_memory">> >> \o push_calls(ms)

diagnostic_system_fallback ==
    /\ calls' = << >>
    /\ UNCHANGED <<diagnostics, offered, sysinfo, new_all_calls>>

diagnostic_system ==
    IF RealSelected THEN diagnostic_system_real
    ELSE IF FallbackSelected THEN diagnostic_system_fallback
    ELSE UNCHANGED <<diagnostics, offered, sysinfo, new_all_calls, calls>>

-----------------------------------------------------------------------------
(* internal::log_system_info *)

Digits == <<"0", "1", "2", "3", "4", "5", "6", "7", "8", "9">>

\* usize::to_string: decimal digits, no leading zero
RECURSIVE to_string(_)
to_string(x) ==
    IF x < 10 THEN Digits[x + 1]
    ELSE to_string(x \div 10) \o Digits[(x % 10) + 1]

\* str::trim on a string held as a sequence of characters
RECURSIVE trim_start(_)
trim_start(s) ==
    IF s # << >> /\ Head(s) = " " THEN trim_start(Tail(s)) ELSE s

RECURSIVE trim_end(_)
trim_end(s) ==
    IF s # << >> /\ s[Len(s)] = " "
    THEN trim_end(SubSeq(s, 1, Len(s) - 1))
    ELSE s

trim(s) == trim_end(trim_start(s))

\* the text of a number of tenths: "<integer part>.<one digit> GiB"
FormatTenths(t) ==
    to_string(t \div 10) \o "." \o Digits[(t % 10) + 1] \o " GiB"

\* format!("{:.1} GiB", x): x to one decimal, a tie going to the even digit
format_gib(x) ==
    LET num == 10 * x.n * (IF x.e > 0 THEN Pow2(x.e) ELSE 1)
        den == x.d * (IF x.e < 0 THEN Pow2(0 - x.e) ELSE 1)
        q == num \div den
        r == num % den
        t == IF 2 * r > den THEN q + 1
             ELSE IF 2 * r = den THEN q + (q % 2)
             ELSE q
    IN FormatTenths(t)

\* fault variant: a missing core count is logged as "0"
SystemInfo_core_count_zero(o) ==
    [os |-> unwrap_or_else(o.long_os_version, "not available"),
     kernel |-> unwrap_or_else(o.kernel_version, "not available"),
     cpu |-> trim(o.brand),
     core_count |->
        unwrap_or_else(
            [i \in DOMAIN o.physical_core_count |->
                to_string(o.physical_core_count[i])],
            "0"),
     memory |-> format_gib(FMul(FromInt(o.total_memory), BYTES_TO_GIB))]

\* the SystemInfo built from a System::new() refreshed for cpu and memory
SystemInfo(o) ==
    [os |-> unwrap_or_else(o.long_os_version, "not available"),
     kernel |-> unwrap_or_else(o.kernel_version, "not available"),
     cpu |-> trim(o.brand),
     core_count |->
        unwrap_or_else(
            [i \in DOMAIN o.physical_core_count |->
                to_string(o.physical_core_count[i])],
            "not available"),
     memory |-> format_gib(FMul(FromInt(o.total_memory), BYTES_TO_GIB))]

log_system_info_real ==
    log' = Append(log, [level |-> "info", text |-> "",
                        info |-> Some(SystemInfo(os))])

log_system_info_fallback == UNCHANGED log

log_system_info ==
    IF RealSelected THEN log_system_info_real
    ELSE IF FallbackSelected THEN log_system_info_fallback
    ELSE UNCHANGED log

-----------------------------------------------------------------------------
(* What sysinfo can report *)

RECURSIVE SeqsUpTo(_, _)
SeqsUpTo(S, n) ==
    IF n = 0 THEN {<< >>}
    ELSE LET shorter == SeqsUpTo(S, n - 1)
         IN shorter \cup {Append(s, x) : s \in {t \in shorter : Len(t) = n - 1},
                                         x \in S}

MemValues == {k * MemUnit : k \in 0..MaxMem}

Brands == {<<" ", "c", "p", "u", " ">>}

OsStates ==
    [cpus : SeqsUpTo(CpuReadings, MaxCores),
     total_memory : MemValues,
     used_memory : MemValues,
     long_os_version : {None, Some("Linux 22.04 Ubuntu")},
     kernel_version : {None, Some("6.1.0")},
     physical_core_count : {None} \cup {Some(c) : c \in {1, 12}},
     brand : Brands]

-----------------------------------------------------------------------------
(* The App: Plugin::build, the startup schedule, the update schedule *)

Range(s) == {s[i] : i \in DOMAIN s}

EmptyDiagnostics == [i \in {} |-> 0]

InitApp ==
    /\ target_os \in TargetOses
    /\ dynamic_plugin \in BOOLEAN
    /\ phase = "new"
    /\ startup_systems = << >>
    /\ systems = << >>
    /\ diagnostics = EmptyDiagnostics
    /\ offered = [i \in {CPU_USAGE, MEM_USAGE} |-> 0]
    /\ sysinfo = None
    /\ new_all_calls = 0
    /\ calls = << >>
    /\ ticks = 0
    /\ os_changes = 0
    /\ log = << >>
    /\ log_calls = 0

VersionsKnown(o) ==
    /\ is_some(o.long_os_version)
    /\ is_some(o.kernel_version)
    /\ o.physical_core_count = Some(12)

\* any cores with some memory in use, or any memory with one core
Init ==
    /\ InitApp
    /\ os \in {o \in OsStates :
                /\ VersionsKnown(o)
                /\ \/ o.total_memory = MaxMem * MemUnit /\ o.used_memory = MemUnit
                   \/ o.cpus = <<100>>}

\* any version data on a one-core machine
InitLog ==
    /\ InitApp
    /\ target_os \in {"linux", "ios"}
    /\ os \in {o \in OsStates : o.cpus = <<100>> /\ o.used_memory = 0}

\* one machine, for the long runs
InitHist ==
    /\ InitApp
    /\ target_os \in {"linux", "ios"}
    /\ os \in {o \in OsStates :
                /\ VersionsKnown(o)
                /\ o.cpus = <<100>>
                /\ o.used_memory = 0
                /\ o.total_memory = MaxMem * MemUnit}

\* SystemInformationDiagnosticsPlugin::build
Build ==
    /\ phase = "new"
    /\ phase' = "built"
    /\ startup_systems' = Append(startup_systems, "setup_system")
    /\ systems' = Append(systems, "diagnostic_system")
    /\ UNCHANGED <<target_os, dynamic_plugin, diagnostics, offered, sysinfo,
                   new_all_calls, calls, ticks, os, os_changes, log, log_calls>>

\* the startup schedule runs once, before the first update
RunStartup ==
    /\ phase = "built"
    /\ phase' = "running"
    /\ IF "setup_system" \in Range(startup_systems)
       THEN IF RealSelected
            THEN diagnostics' = setup_system(diagnostics) /\ UNCHANGED log
            ELSE IF FallbackSelected
            THEN log' = setup_system_fallback(log) /\ UNCHANGED diagnostics
            ELSE UNCHANGED <<diagnostics, log>>
       ELSE UNCHANGED <<diagnostics, log>>
    /\ UNCHANGED <<target_os, dynamic_plugin, startup_systems, systems,
                   offered, sysinfo, new_all_calls, calls, ticks, os,
                   os_changes, log_calls>>

\* one run of the update schedule
Update(limit) ==
    /\ phase = "running"
    /\ ticks < limit
    /\ ticks' = ticks + 1
    /\ IF "diagnostic_system" \in Range(systems)
       THEN diagnostic_system
       ELSE UNCHANGED <<diagnostics, offered, sysinfo, new_all_calls, calls>>
    /\ UNCHANGED <<target_os, dynamic_plugin, phase, startup_systems, systems,
                   os, os_changes, log, log_calls>>

AppUpdate == Update(MaxTicks)

AppUpdateHist == Update(MaxHistTicks)

\* a caller of log_system_info
LogSystemInfo ==
    /\ log_calls < MaxLogCalls
    /\ log_calls' = log_calls + 1
    /\ log_system_info
    /\ UNCHANGED <<target_os, dynamic_plugin, phase, startup_systems, systems,
                   diagnostics, offered, sysinfo, new_all_calls, calls, ticks,
                   os, os_changes>>

\* the load of the machine changes while the App runs: the readings of its
\* cores, or the memory in use
OsChange ==
    /\ phase = "running"
    /\ os_changes < MaxOsChanges
    /\ os_changes' = os_changes + 1
    /\ \/ \E c \in [1..Len(os.cpus) -> CpuReadings] :
            c # os.cpus /\ os' = [os EXCEPT !.cpus = c]
       \/ \E u \in MemValues :
            u # os.used_memory /\ os' = [os EXCEPT !.used_memory = u]
    /\ UNCHANGED <<target_os, dynamic_plugin, phase, startup_systems, systems,
                   diagnostics, offered, sysinfo, new_all_calls, calls, ticks,
                   log, log_calls>>

Next == Build \/ RunStartup \/ AppUpdate \/ LogSystemInfo \/ OsChange

NextHist == Build \/ RunStartup \/ AppUpdateHist \/ LogSystemInfo \/ OsChange

Spec == Init /\ [][Next]_vars

SpecLog == InitLog /\ [][Next]_vars

SpecHist == InitHist /\ [][NextHist]_vars

-----------------------------------------------------------------------------
(* Properties *)

HistoryDepth == 20

PluginIds == {CPU_USAGE, MEM_USAGE}

Last(h) == h[Len(h)]

RECURSIVE Sum(_)
Sum(q) == IF q = << >> THEN 0 ELSE Head(q) + Sum(Tail(q))

Abs(x) == IF x < 0 THEN 0 - x ELSE x

Percent0 == FromInt(0)
Percent100 == FromInt(100)

\* C1: on a supported configuration every update makes exactly one
\* add_measurement call for CPU_USAGE and one for MEM_USAGE: after n updates
\* each series has been offered n measurements, the two counts are equal, and
\* the newest measurement of each series is the one of the last update.
C1_OneMeasurementEachPerTick ==
    RealSelected =>
        /\ offered[CPU_USAGE] = ticks
        /\ offered[MEM_USAGE] = ticks
        /\ offered[CPU_USAGE] = offered[MEM_USAGE]
        /\ ticks > 0 =>
            \A id \in PluginIds :
                /\ diagnostics[id].history # << >>
                /\ Last(diagnostics[id].history).time = ticks
                /\ \A i \in 1..Len(diagnostics[id].history) - 1 :
                    diagnostics[id].history[i].time < ticks

C1_Witness ==
    /\ RealSelected
    /\ ticks = MaxTicks
    /\ offered[CPU_USAGE] = MaxTicks
    /\ offered[MEM_USAGE] = MaxTicks

\* C2: build installs setup_system as the only startup system and
\* diagnostic_system as the only update system; no update runs before the
\* startup schedule; on a supported configuration the registry holds exactly
\* the two diagnostics CPU_USAGE and MEM_USAGE once the App runs and after any
\* number of updates, and no measurement is offered for an unregistered id.
C2_RegisteredOnceBeforeAnyTick ==
    /\ phase # "new" =>
        /\ startup_systems = <<"setup_system">>
        /\ systems = <<"diagnostic_system">>
    /\ phase # "running" => ticks = 0 /\ DOMAIN diagnostics = {}
    /\ RealSelected =>
        /\ phase = "running" =>
            /\ DOMAIN diagnostics = PluginIds
            /\ Cardinality(DOMAIN diagnostics) = 2
        /\ \A id \in PluginIds :
            offered[id] > 0 => id \in DOMAIN diagnostics

C2_Witness ==
    /\ RealSelected
    /\ ticks >= 2
    /\ Cardinality(DOMAIN diagnostics) = 2
    /\ offered[MEM_USAGE] >= 2

\* C3: the CPU measurement pushed by an update is the arithmetic mean of the
\* per-core readings the update read, and is a number within 0..100, for any
\* number of logical cores.
C3_CpuMeanWithinRange ==
    (RealSelected /\ ticks > 0) =>
        LET v == Last(diagnostics[CPU_USAGE].history).value
            c == sysinfo[1].cpus
        IN /\ IsNum(v)
           /\ FLe(Percent0, v)
           /\ FLe(v, Percent100)
           /\ FMul(v, FromInt(Len(c))) = FromInt(Sum(c))

\* the same with at least one logical core reported
C3_CpuMeanOfSomeCores ==
    (RealSelected /\ ticks > 0 /\ Len(sysinfo[1].cpus) > 0) =>
        LET v == Last(diagnostics[CPU_USAGE].history).value
            c == sysinfo[1].cpus
        IN /\ IsNum(v)
           /\ FLe(Percent0, v)
           /\ FLe(v, Percent100)
           /\ FMul(v, FromInt(Len(c))) = FromInt(Sum(c))

\* C4: the memory measurement pushed by an update is used bytes / total bytes
\* x 100 (the scaling of both operands by BYTES_TO_GIB cancels), and it is a
\* number within 0..100 whenever used_memory <= total_memory.
C4_MemPercentage ==
    (RealSelected /\ ticks > 0) =>
        LET v == Last(diagnostics[MEM_USAGE].history).value
            used == sysinfo[1].used_memory
            total == sysinfo[1].total_memory
        IN /\ used <= total =>
                IsNum(v) /\ FLe(Percent0, v) /\ FLe(v, Percent100)
           /\ IsNum(v) =>
                FMul(v, FromInt(total)) = FMul(FromInt(used), Percent100)

\* the same with a total memory that is not zero
C4_MemPercentageOfSomeMemory ==
    (RealSelected /\ ticks > 0 /\ sysinfo[1].total_memory > 0) =>
        LET v == Last(diagnostics[MEM_USAGE].history).value
            used == sysinfo[1].used_memory
            total == sysinfo[1].total_memory
        IN /\ IsNum(v)
           /\ FMul(v, FromInt(total)) = FMul(FromInt(used), Percent100)
           /\ used <= total => FLe(Percent0, v) /\ FLe(v, Percent100)

\* C5: exactly one of the two `internal` modules is selected; the real one
\* exactly when the target is linux, windows, android or macos and the dynamic
\* plugin feature is off.  Under the fallback the registry stays empty, no
\* measurement is offered, no sysinfo handle is made, and the only record
\* logged is the warning of setup_system.
C5_PlatformGate ==
    /\ RealSelected # FallbackSelected
    /\ RealSelected <=>
        (target_os \in {"linux", "windows", "android", "macos"}
            /\ dynamic_plugin = FALSE)
    /\ FallbackSelected =>
        /\ DOMAIN diagnostics = {}
        /\ \A id \in PluginIds : offered[id] = 0
        /\ sysinfo = None
        /\ new_all_calls = 0
        /\ Len(log) = (IF phase = "running" THEN 1 ELSE 0)
        /\ \A i \in 1..Len(log) : log[i].level = "warn"

C5_Witness ==
    /\ FallbackSelected
    /\ target_os = "linux"
    /\ ticks = MaxTicks
    /\ log_calls = MaxLogCalls
    /\ DOMAIN diagnostics = {}

\* C6: CPU_USAGE and MEM_USAGE are distinct; every registered diagnostic is
\* one of the two, is stored under its own id and has suffix "%"; CPU_USAGE
\* is named "cpu_usage" and holds only CPU samples, MEM_USAGE is named
\* "mem_usage" and holds only memory samples.
C6_StableDistinctIdentifiers ==
    /\ CPU_USAGE # MEM_USAGE
    /\ \A id \in DOMAIN diagnostics :
        LET d == diagnostics[id]
        IN /\ id \in PluginIds
           /\ d.id = id
           /\ d.suffix = "%"
           /\ id = CPU_USAGE =>
                /\ d.name = "cpu_usage"
                /\ \A i \in 1..Len(d.history) : d.history[i].gauge = "cpu"
           /\ id = MEM_USAGE =>
                /\ d.name = "mem_usage"
                /\ \A i \in 1..Len(d.history) : d.history[i].gauge = "mem"

C6_Witness ==
    /\ RealSelected
    /\ ticks >= 2
    /\ Len(diagnostics[CPU_USAGE].history) >= 2
    /\ Len(diagnostics[MEM_USAGE].history) >= 2

C8_LazyHandle ==
    RealSelected =>
        /\ ticks = 0 => sysinfo = None /\ new_all_calls = 0
        /\ ticks >= 1 => is_some(sysinfo) /\ new_all_calls = 1
        /\ <<"return">> \notin Range(calls)

C8_Witness ==
    /\ RealSelected
    /\ ticks >= 2
    /\ is_some(sysinfo)
    /\ new_all_calls = 1

\* C9: every update of a supported configuration calls refresh_cpu and
\* refresh_memory, then reads the gauges, then pushes the CPU measurement and
\* then the memory measurement; the values it pushes are those the operating
\* system reports at that update, not those of an earlier update.
C9_FixedOrderFreshValues ==
    [][ (RealSelected /\ ticks' = ticks + 1) =>
            /\ calls' = << <<"refresh_cpu">>, <<"refresh_memory">>,
                           <<"cpus">>, <<"total_memory">>, <<"used_memory">>,
                           <<"add_measurement", CPU_USAGE>>,
                           <<"add_measurement", MEM_USAGE>> >>
            /\ sysinfo' = Some(new_all(os))
            /\ Last(diagnostics'[CPU_USAGE].history).value
                    = current_cpu_usage(os)
            /\ Last(diagnostics'[MEM_USAGE].history).value
                    = current_used_mem(os)
            /\ Last(diagnostics'[CPU_USAGE].history).time = ticks + 1
            /\ Last(diagnostics'[MEM_USAGE].history).time = ticks + 1 ]_vars

C9_Witness ==
    /\ RealSelected
    /\ ticks >= 2
    /\ os_changes >= 1
    /\ LET h == diagnostics[CPU_USAGE].history
       IN /\ Len(h) >= 2
          /\ h[Len(h)].value # h[Len(h) - 1].value
          /\ h[Len(h)].value = current_cpu_usage(os)

\* C10: a call of log_system_info on a supported configuration leaves the
\* registry alone and emits exactly one record; its os, kernel and core_count
\* fields are "not available" when sysinfo has no value and the value
\* otherwise, and its memory field is the total memory in GiB to one decimal.
C10_LogSystemInfo ==
    [][ (RealSelected /\ log_calls' = log_calls + 1) =>
            /\ diagnostics' = diagnostics
            /\ offered' = offered
            /\ Len(log') = Len(log) + 1
            /\ SubSeq(log', 1, Len(log)) = log
            /\ LET r == Last(log')
                   i == r.info[1]
               IN /\ r.level = "info"
                  /\ is_some(r.info)
                  /\ is_none(os.long_os_version) => i.os = "not available"
                  /\ is_some(os.long_os_version) => i.os = os.long_os_version[1]
                  /\ is_none(os.kernel_version) => i.kernel = "not available"
                  /\ is_some(os.kernel_version) => i.kernel = os.kernel_version[1]
                  /\ os.physical_core_count = None =>
                        i.core_count = "not available"
                  /\ os.physical_core_count = Some(1) => i.core_count = "1"
                  /\ os.physical_core_count = Some(12) => i.core_count = "12"
                  /\ \E t \in 0..(10 * (MaxMem + 1)) :
                        /\ i.memory = FormatTenths(t)
                        /\ Abs(8 * t - 10 * (os.total_memory \div Pow2(27))) <= 4
      ]_vars

C10_Witness ==
    /\ RealSelected
    /\ Len(log) = 1
    /\ os.long_os_version = None
    /\ os.physical_core_count = None
    /\ is_some(os.kernel_version)
    /\ log[1].info[1].os = "not available"
    /\ log[1].info[1].core_count = "not available"
    /\ log[1].info[1].kernel = "6.1.0"
    /\ log[1].info[1].memory = "0.8 GiB"

====
